---- MODULE Spec2Model ----
(***************************************************************************)
(* Model of snakemake_software_deployment_plugin_spack/__init__.py:        *)
(* the EnvSpec dataclass and the Env handle (check, get_spack_env_yaml,    *)
(* decorate_shellcmd, record_hash, report_software, run_cmd).              *)
(*                                                                         *)
(* A Python str is a sequence of atoms: single characters where the code   *)
(* looks inside the string (descriptor text, spec strings), indivisible    *)
(* words where it only concatenates (names, roots, literal fragments).     *)
(* File contents are sequences of byte values (integers).                  *)
(***************************************************************************)
EXTENDS Integers, Sequences, FiniteSets, TLC

VARIABLES
    specs,        \* the EnvSpec objects constructed so far (their envName values)
    envs,         \* the Env handles constructed so far, in order: [spec |-> envName]
    onceCache,    \* EnvBase.once: TRUE when the cache holds an entry for check
    checkRuns,    \* per handle: executions of the body of check
    checkCalls,   \* per handle: invocations of check (by __post_init__ or explicit)
    environ,      \* os.environ.get("SPACK_ROOT"): PyNone when unset
    fs,           \* the file system: path -> [exists, bytes]
    lastHash,     \* the latest successful record_hash: [valid, bytes, data]
    ret           \* outcome of the last call: [op, h, arg, exc, val]

vars == <<specs, envs, onceCache, checkRuns, checkCalls, environ, fs, lastHash, ret>>

(* ------------------------------ bounds -------------------------------- *)
MaxHandles == 2
MaxChecks == 3
MaxCmdParts == 2
MaxFiles == 2
MaxSpecLen == 4
MaxSpecs == 3

(* --------------------------- Python values ---------------------------- *)
PyNone == [t |-> "NoneType", v |-> <<>>]
PyStr(s) == [t |-> "str", v |-> s]
PyList(l) == [t |-> "list", v |-> l]

\* str(x) as an f-string placeholder renders it
Format(x) == IF x.t = "NoneType" THEN <<"None">> ELSE x.v

NoExc == "none"
Ret(op, h, arg, exc, val) == [op |-> op, h |-> h, arg |-> arg, exc |-> exc, val |-> val]
Idle == Ret("idle", 0, PyNone, NoExc, PyNone)

RECURSIVE Concat(_)
Concat(ss) == IF ss = <<>> THEN <<>> ELSE Head(ss) \o Concat(Tail(ss))

(* ------------------------------ inputs -------------------------------- *)
EnvNames == {<<"foo">>, <<>>}
EnvNameArgs == {PyNone} \cup {PyStr(n) : n \in EnvNames}
Roots == {<<"/opt/spack">>, <<"/srv/spack">>}
RootValues == {PyNone} \cup {PyStr(r) : r \in Roots}

(* ------------------------------ EnvSpec ------------------------------- *)
PostInitRaisesNever(envName) == FALSE

\* EnvSpec.__post_init__: raise WorkflowError if self.envName is None
PostInitRaises(envName) == envName = PyNone

\* EnvSpec.identity_attributes: a generator that yields "envName"
identity_attributes == PyList(<< <<"envName">> >>)

\* EnvSpec.source_path_attributes: the body is "...", so the call returns None
source_path_attributes == PyNone

NewEnvSpec(envName) ==
    /\ IF PostInitRaises(envName)
       THEN /\ ret' = Ret("EnvSpec", 0, envName, "WorkflowError", PyNone)
            /\ UNCHANGED specs
       ELSE /\ ret' = Ret("EnvSpec", 0, envName, NoExc, envName)
            /\ specs' = specs \cup {envName}
    /\ UNCHANGED <<envs, onceCache, checkRuns, checkCalls, environ, fs, lastHash>>

CallIdentityAttributes ==
    /\ ret' = Ret("identity_attributes", 0, PyNone, NoExc, identity_attributes)
    /\ UNCHANGED <<specs, envs, onceCache, checkRuns, checkCalls, environ, fs, lastHash>>

CallSourcePathAttributes ==
    /\ ret' = Ret("source_path_attributes", 0, PyNone, NoExc, source_path_attributes)
    /\ UNCHANGED <<specs, envs, onceCache, checkRuns, checkCalls, environ, fs, lastHash>>

(* ------------------------- Env: construction, check ------------------- *)
BodyRunsAlways(cache) == TRUE

\* @EnvBase.once: the wrapped body executes only when the cache has no entry
BodyRuns(cache) == ~cache

\* Env.__post_init__: self.check()
NewEnv(spec) ==
    /\ Len(envs) < MaxHandles
    /\ spec \in specs
    /\ envs' = Append(envs, [spec |-> spec])
    /\ checkCalls' = Append(checkCalls, 1)
    /\ checkRuns' = Append(checkRuns, IF BodyRuns(onceCache) THEN 1 ELSE 0)
    /\ onceCache' = TRUE
    /\ ret' = Ret("Env", Len(envs) + 1, spec, NoExc, PyNone)
    /\ UNCHANGED <<specs, environ, fs, lastHash>>

\* Env.check, called again on an existing handle
check(h) ==
    /\ checkCalls[h] < MaxChecks
    /\ checkCalls' = [checkCalls EXCEPT ![h] = @ + 1]
    /\ checkRuns' = [checkRuns EXCEPT ![h] = IF BodyRuns(onceCache) THEN @ + 1 ELSE @]
    /\ onceCache' = TRUE
    /\ ret' = Ret("check", h, PyNone, NoExc, PyNone)
    /\ UNCHANGED <<specs, envs, environ, fs, lastHash>>

(* --------------------- Env: decorate_shellcmd, run_cmd ---------------- *)
\* f"spack env activate {self.spec.envName} && {cmd}"
Decorate(envName, cmd) ==
    <<"spack", " ", "env", " ", "activate", " ">> \o Format(envName)
        \o <<" ", "&&", " ">> \o cmd

decorate_shellcmd(h, cmd) ==
    /\ ret' = Ret("decorate_shellcmd", h, PyStr(cmd), NoExc,
                  PyStr(Decorate(envs[h].spec, cmd)))
    /\ UNCHANGED <<specs, envs, onceCache, checkRuns, checkCalls, environ, fs, lastHash>>

\* The shell run_cmd hands the string to (subprocess.run(cmd, shell=True)):
\* blanks separate words, a simple command is a run of words, and-or lists
\* associate to the left and ";" separates lists.
ShellOps == {"&&", "||", ";"}

RECURSIVE ShellParse(_, _)
ShellParse(toks, cur) ==
    IF toks = <<>>
    THEN IF cur = <<>> THEN <<>> ELSE <<[cmd |-> cur, op |-> "end"]>>
    ELSE IF Head(toks) \in ShellOps
         THEN <<[cmd |-> cur, op |-> Head(toks)]>> \o ShellParse(Tail(toks), <<>>)
         ELSE IF Head(toks) = " "
              THEN ShellParse(Tail(toks), cur)
              ELSE ShellParse(Tail(toks), Append(cur, Head(toks)))

IsActivation(cmd) ==
    /\ Len(cmd) >= 3
    /\ SubSeq(cmd, 1, 3) = <<"spack", "env", "activate">>

\* exit status of one simple command: act for the activation, user for the rest
ExitStatus(cmd, act, user) == IF IsActivation(cmd) THEN act ELSE user

RECURSIVE ShellEval(_, _, _, _, _, _)
ShellEval(items, run, last, out, act, user) ==
    IF items = <<>>
    THEN [status |-> last, executed |-> out]
    ELSE LET it == Head(items)
             st == IF run THEN ExitStatus(it.cmd, act, user) ELSE last
             out2 == IF run THEN Append(out, it.cmd) ELSE out
             run2 == CASE it.op = "&&" -> st = 0
                       [] it.op = "||" -> st # 0
                       [] OTHER -> TRUE
         IN  ShellEval(Tail(items), run2, st, out2, act, user)

ShellRun(cmd, act, user) == ShellEval(ShellParse(cmd, <<>>), TRUE, 0, <<>>, act, user)

\* Env.run_cmd on the decorated command: check=True raises on a non-zero status
run_cmd(act, user) ==
    /\ ret.op = "decorate_shellcmd"
    /\ LET r == ShellRun(ret.val.v, act, user)
       IN  ret' = Ret("run_cmd", ret.h,
                      [cmd |-> ret.val.v, orig |-> ret.arg.v, act |-> act],
                      IF r.status = 0 THEN NoExc ELSE "CalledProcessError",
                      PyList(r.executed))
    /\ UNCHANGED <<specs, envs, onceCache, checkRuns, checkCalls, environ, fs, lastHash>>

\* the caller's commands: up to MaxCmdParts simple commands joined by operators
SimpleCmds == {<<"x">>, <<"y">>, <<"echo", " ", "hi">>}
Joiner(op) == IF op = ";" THEN <<";", " ">> ELSE <<" ", op, " ">>
RECURSIVE CmdLists(_)
CmdLists(n) ==
    IF n <= 1 THEN SimpleCmds
    ELSE CmdLists(n - 1) \cup
         {l \o Joiner(op) \o s : l \in CmdLists(n - 1), op \in ShellOps, s \in SimpleCmds}
Cmds == CmdLists(MaxCmdParts)
ExitCodes == {0, 1}

(* ------------------------ descriptor files ---------------------------- *)
\* f"{SPACK_ROOT}/var/spack/environments/{envName}/spack.yaml"
PathOf(root, envName) ==
    Format(root) \o <<"/var/spack/environments/">> \o Format(envName) \o <<"/spack.yaml">>
Paths == {PathOf(r, PyStr(n)) : r \in RootValues, n \in EnvNames}

Missing == [exists |-> FALSE, bytes |-> <<>>]
File(bytes) == [exists |-> TRUE, bytes |-> bytes]

\* byte value <-> character, for the characters the model uses
CharTable ==
    << <<10, "\n">>, <<13, "\r">>, <<43, "+">>, <<46, ".">>, <<48, "0">>,
       <<49, "1">>, <<50, "2">>, <<64, "@">>, <<94, "^">>, <<98, "b">>,
       <<99, "c">>, <<103, "g">>, <<105, "i">>, <<108, "l">>, <<111, "o">>,
       <<115, "s">>, <<116, "t">>, <<122, "z">> >>
Chr(b) == LET k == CHOOSE k \in 1..Len(CharTable) : CharTable[k][1] = b
          IN  CharTable[k][2]
Ord(c) == LET k == CHOOSE k \in 1..Len(CharTable) : CharTable[k][2] = c
          IN  CharTable[k][1]

Decode(bytes) == [i \in 1..Len(bytes) |-> Chr(bytes[i])]
\* str.encode("utf-8")
Encode(text) == [i \in 1..Len(text) |-> Ord(text[i])]

\* text mode with newline=None: "\r\n" and "\r" are read as "\n"
RECURSIVE UniversalNewlines(_)
UniversalNewlines(text) ==
    IF text = <<>> THEN <<>>
    ELSE IF Head(text) = "\r"
         THEN IF Len(text) >= 2 /\ text[2] = "\n"
              THEN <<"\n">> \o UniversalNewlines(SubSeq(text, 3, Len(text)))
              ELSE <<"\n">> \o UniversalNewlines(Tail(text))
         ELSE <<Head(text)>> \o UniversalNewlines(Tail(text))

OpenReadLenient(path) ==
    IF fs[path].exists
    THEN [exc |-> NoExc, text |-> UniversalNewlines(Decode(fs[path].bytes))]
    ELSE [exc |-> NoExc, text |-> <<>>]

\* with open(env_yaml, "r") as f: f.read()
OpenRead(path) ==
    IF fs[path].exists
    THEN [exc |-> NoExc, text |-> UniversalNewlines(Decode(fs[path].bytes))]
    ELSE [exc |-> "FileNotFoundError", text |-> <<>>]

SpackEnvYamlDefaultEmpty(h) ==
    (IF environ = PyNone THEN <<>> ELSE environ.v)
        \o <<"/var/spack/environments/">> \o Format(envs[h].spec) \o <<"/spack.yaml">>

SpackEnvYamlImportTime(h) ==
    <<"/opt/spack">> \o <<"/var/spack/environments/">> \o Format(envs[h].spec)
        \o <<"/spack.yaml">>

\* Env.get_spack_env_yaml: the value of the call
SpackEnvYaml(h) ==
    Format(environ) \o <<"/var/spack/environments/">> \o Format(envs[h].spec)
        \o <<"/spack.yaml">>

get_spack_env_yaml(h) ==
    /\ ret' = Ret("get_spack_env_yaml", h, PyNone, NoExc, PyStr(SpackEnvYaml(h)))
    /\ UNCHANGED <<specs, envs, onceCache, checkRuns, checkCalls, environ, fs, lastHash>>

\* Env.record_hash(hash_object), acc being what hash_object has been fed before
record_hash(h, acc) ==
    LET f == OpenRead(SpackEnvYaml(h))
    IN  /\ IF f.exc # NoExc
           THEN /\ ret' = Ret("record_hash", h, acc, f.exc,
                              [acc |-> acc, updates |-> 0, data |-> <<>>,
                               prev |-> lastHash])
                /\ UNCHANGED lastHash
           ELSE LET data == Encode(f.text)
                IN  /\ ret' = Ret("record_hash", h, acc, NoExc,
                                  [acc |-> acc \o data, updates |-> 1, data |-> data,
                                   prev |-> lastHash])
                    /\ lastHash' = [valid |-> TRUE,
                                    bytes |-> fs[SpackEnvYaml(h)].bytes,
                                    data |-> data]
        /\ UNCHANGED <<specs, envs, onceCache, checkRuns, checkCalls, environ, fs>>

(* ------------------------- report_software ---------------------------- *)
\* yaml.safe_load(f) followed by .get("spack", {}).get("specs", []).  Of a
\* descriptor the model keeps the entries of the spack.specs block sequence,
\* one spec string a line; the YAML around them is left to the library.
RECURSIVE Lines(_, _)
Lines(text, cur) ==
    IF text = <<>>
    THEN IF cur = <<>> THEN <<>> ELSE <<cur>>
    ELSE IF Head(text) = "\n"
         THEN <<cur>> \o Lines(Tail(text), <<>>)
         ELSE Lines(Tail(text), Append(cur, Head(text)))
SafeLoadSpecs(text) == Lines(text, <<>>)

NameCharNoCaret(c) == c # "@"

\* the class [^@^]
NameChar(c) == c \notin {"@", "^"}
\* the class [\d\.]
VersionChar(c) == c \in {"0", "1", "2", "3", "4", "5", "6", "7", "8", "9", "."}

\* re.compile(r"^([^@^]+)@([\d\.]+)").match(s): every way to split a prefix
\* of s into group 1, "@" and group 2; the greedy quantifiers take the
\* longest group 1 that lets the rest match, then the longest group 2
PatternSplits(s) ==
    {ij \in (1..Len(s)) \X (1..Len(s)) :
        /\ \A k \in 1..ij[1] : NameChar(s[k])
        /\ ij[1] + 1 <= Len(s)
        /\ s[ij[1] + 1] = "@"
        /\ ij[2] >= ij[1] + 2
        /\ \A k \in (ij[1] + 2)..ij[2] : VersionChar(s[k])}
PatternMatch(s) ==
    IF PatternSplits(s) = {}
    THEN [matched |-> FALSE, name |-> <<>>, version |-> <<>>]
    ELSE LET ij == CHOOSE x \in PatternSplits(s) :
                     \A y \in PatternSplits(s) :
                        \/ y[1] < x[1]
                        \/ (y[1] = x[1] /\ y[2] <= x[2])
         IN  [matched |-> TRUE,
              name |-> SubSeq(s, 1, ij[1]),
              version |-> SubSeq(s, ij[1] + 2, ij[2])]

\* the loop of report_software over the spec strings
RECURSIVE Report(_)
Report(l) ==
    IF l = <<>> THEN <<>>
    ELSE LET m == PatternMatch(Head(l))
         IN  (IF m.matched
              THEN <<[name |-> m.name, version |-> m.version]>>
              ELSE <<>>) \o Report(Tail(l))

\* Env.report_software
report_software(h) ==
    LET f == OpenRead(SpackEnvYaml(h))
    IN  /\ IF f.exc # NoExc
           THEN ret' = Ret("report_software", h, PyNone, f.exc, PyNone)
           ELSE ret' = Ret("report_software", h, PyList(SafeLoadSpecs(f.text)),
                           NoExc, PyList(Report(SafeLoadSpecs(f.text))))
        /\ UNCHANGED <<specs, envs, onceCache, checkRuns, checkCalls, environ, fs, lastHash>>

(* ----------------- the process environment and the disk --------------- *)
\* descriptors on disk: "g@1\n", "g@1\r\n", "b\n"
Descriptors == {<<103, 64, 49, 10>>, <<103, 64, 49, 13, 10>>, <<98, 10>>}
Accumulators == {<<>>, <<122>>}

\* SPACK_ROOT is set or unset in the process environment
SetRoot(r) ==
    /\ environ # r
    /\ environ' = r
    /\ ret' = Idle
    /\ UNCHANGED <<specs, envs, onceCache, checkRuns, checkCalls, fs, lastHash>>

\* a descriptor is written (spack env create / edit)
WriteFile(p, bytes) ==
    /\ fs[p] # File(bytes)
    /\ Cardinality({q \in Paths : fs[q].exists} \cup {p}) <= MaxFiles
    /\ fs' = [fs EXCEPT ![p] = File(bytes)]
    /\ ret' = Idle
    /\ UNCHANGED <<specs, envs, onceCache, checkRuns, checkCalls, environ, lastHash>>

\* a descriptor is removed (spack env remove)
RemoveFile(p) ==
    /\ fs[p].exists
    /\ fs' = [fs EXCEPT ![p] = Missing]
    /\ ret' = Idle
    /\ UNCHANGED <<specs, envs, onceCache, checkRuns, checkCalls, environ, lastHash>>

(* --------------------------- specifications --------------------------- *)
NoHash == [valid |-> FALSE, bytes |-> <<>>, data |-> <<>>]

\* the objects: EnvSpec and Env construction, the run-once check
Init ==
    /\ specs = {}
    /\ envs = <<>>
    /\ onceCache = FALSE
    /\ checkRuns = <<>>
    /\ checkCalls = <<>>
    /\ environ = PyNone
    /\ fs = [p \in Paths |-> Missing]
    /\ lastHash = NoHash
    /\ ret = Idle

Next ==
    \/ \E n \in EnvNameArgs : NewEnvSpec(n)
    \/ CallIdentityAttributes
    \/ CallSourcePathAttributes
    \/ \E s \in specs : NewEnv(s)
    \/ \E h \in 1..Len(envs) : check(h)

Spec == Init /\ [][Next]_vars

\* a handle exists (EnvSpec(n) then Env(spec), whose __post_init__ checked)
InitHandle(n) ==
    /\ specs = {PyStr(n)}
    /\ envs = <<[spec |-> PyStr(n)]>>
    /\ onceCache = TRUE
    /\ checkRuns = <<1>>
    /\ checkCalls = <<1>>
    /\ lastHash = NoHash
    /\ ret = Idle

\* shell commands decorated by a handle and run
InitShell ==
    /\ \E n \in EnvNames : InitHandle(n)
    /\ environ = PyNone
    /\ fs = [p \in Paths |-> Missing]

NextShell ==
    \/ \E h \in 1..Len(envs), c \in Cmds : decorate_shellcmd(h, c)
    \/ \E act \in ExitCodes, user \in ExitCodes : run_cmd(act, user)

SpecShell == InitShell /\ [][NextShell]_vars

\* a handle, the SPACK_ROOT variable and the descriptors on disk
InitFiles ==
    /\ \E n \in EnvNames : InitHandle(n)
    /\ environ = PyNone
    /\ fs = [p \in Paths |-> Missing]

NextFiles ==
    \/ \E r \in RootValues : SetRoot(r)
    \/ \E p \in Paths, b \in Descriptors : WriteFile(p, b)
    \/ \E p \in Paths : RemoveFile(p)
    \/ \E h \in 1..Len(envs) : get_spack_env_yaml(h)
    \/ \E h \in 1..Len(envs), acc \in Accumulators : record_hash(h, acc)
    \/ \E h \in 1..Len(envs) : report_software(h)

SpecFiles == InitFiles /\ [][NextFiles]_vars

\* report_software over descriptors that hold a given list of spec strings
SpecAlphabet == {"g", "@", "^", "1", ".", "+"}
SpecStrings == UNION {[1..k -> SpecAlphabet] : k \in 0..MaxSpecLen}
GccSpec == <<"g", "c", "c", "@", "1", "1", ".", "2", ".", "0">>
ZlibSpec == <<"z", "l", "i", "b", "@", "1", ".", "2", ".", "1", "1">>
BoostSpec == <<"b", "o", "o", "s", "t">>
SampleSpecs == {GccSpec, ZlibSpec, BoostSpec, <<"g", "@", "1", "+">>}
SpecLists ==
    {<<s>> : s \in SpecStrings} \cup UNION {[1..k -> SampleSpecs] : k \in 0..MaxSpecs}

\* the descriptor bytes of a spec list: one spec string a line
Dump(l) == Concat([i \in 1..Len(l) |-> Encode(l[i] \o <<"\n">>)])

InitReport ==
    /\ InitHandle(<<"foo">>)
    /\ environ = PyStr(<<"/opt/spack">>)
    /\ \E l \in SpecLists :
          fs = [p \in Paths |->
                  IF p = PathOf(environ, PyStr(<<"foo">>)) THEN File(Dump(l)) ELSE Missing]

NextReport ==
    \E h \in 1..Len(envs) : report_software(h)

SpecReport == InitReport /\ [][NextReport]_vars

(* ------------------------------ claims -------------------------------- *)

\* C1: EnvSpec(envName=None) raises WorkflowError and yields no object;
\* EnvSpec with a name succeeds, and identity_attributes yields exactly
\* ["envName"].
C1_EnvSpecConstruction ==
    /\ PyNone \notin specs
    /\ (ret.op = "EnvSpec" /\ ret.arg = PyNone)
          => (ret.exc = "WorkflowError" /\ ret.val = PyNone)
    /\ (ret.op = "EnvSpec" /\ ret.arg # PyNone)
          => (ret.exc = NoExc /\ ret.val = ret.arg /\ ret.arg \in specs)
    /\ ret.op = "identity_attributes"
          => (ret.exc = NoExc /\ ret.val.v = << <<"envName">> >>)
C1_Witness ==
    /\ ret.op = "EnvSpec" /\ ret.arg = PyNone /\ ret.exc = "WorkflowError"
    /\ PyStr(<<"foo">>) \in specs

\* C2: however often check is invoked on a handle, its body executes at most
\* once for that handle, and the run-once flag, once set, is never reset.
C2_CheckAtMostOnce ==
    /\ [](\A h \in 1..Len(envs) : checkRuns[h] <= 1)
    /\ [][onceCache => onceCache']_vars
C2_Witness ==
    \E h \in 1..Len(envs) : checkCalls[h] >= 2 /\ checkRuns[h] = 1

\* C3: decorate_shellcmd(c) is "spack env activate " + n + " && " + c, and
\* running it never executes a command of c when the activation fails.
C3_DecorateGuardsCommand ==
    ret.op = "run_cmd" =>
        /\ ret.arg.cmd = <<"spack", " ", "env", " ", "activate", " ">>
                            \o envs[ret.h].spec.v \o <<" ", "&&", " ">> \o ret.arg.orig
        /\ ret.arg.act # 0 =>
              \A k \in 1..Len(ret.val.v) : IsActivation(ret.val.v[k])

\* C4: report_software returns one (name, version) entry, in order and with
\* duplicates, for each spec string that starts with a non-empty run of
\* characters other than "@" and "^" followed by "@" and at least one digit
\* or dot; name is that run, version the longest run of digits and dots
\* after the "@"; other strings give no entry and no error.
ClaimNameCh(c) == c # "@" /\ c # "^"
ClaimVersionCh(c) == c \in {"0", "1", "2", "3", "4", "5", "6", "7", "8", "9", "."}
RECURSIVE RunLen(_, _, _)
RunLen(s, i, name) ==
    IF i > Len(s) THEN 0
    ELSE IF (IF name THEN ClaimNameCh(s[i]) ELSE ClaimVersionCh(s[i]))
         THEN 1 + RunLen(s, i + 1, name)
         ELSE 0
ClaimEntry(s) ==
    LET p == RunLen(s, 1, TRUE)
        q == RunLen(s, p + 2, FALSE)
    IN  IF p >= 1 /\ p + 1 <= Len(s) /\ s[p + 1] = "@" /\ q >= 1
        THEN <<[name |-> SubSeq(s, 1, p), version |-> SubSeq(s, p + 2, p + 1 + q)]>>
        ELSE <<>>
RECURSIVE ClaimReport(_)
ClaimReport(l) == IF l = <<>> THEN <<>> ELSE ClaimEntry(Head(l)) \o ClaimReport(Tail(l))
ExampleReport ==
    <<[name |-> <<"g", "c", "c">>, version |-> <<"1", "1", ".", "2", ".", "0">>],
      [name |-> <<"z", "l", "i", "b">>, version |-> <<"1", ".", "2", ".", "1", "1">>]>>
C4_ReportEntries ==
    ret.op = "report_software" =>
        /\ ret.exc = NoExc
        /\ ret.val.v = ClaimReport(ret.arg.v)
        /\ ret.arg.v = <<GccSpec, ZlibSpec, BoostSpec>> => ret.val.v = ExampleReport
C4_Witness ==
    /\ ret.op = "report_software"
    /\ ret.arg.v = <<GccSpec, ZlibSpec, BoostSpec>>
    /\ ret.val.v = ExampleReport

\* C5: with no descriptor file at the derived path, report_software and
\* record_hash raise FileNotFoundError: no report is returned and the
\* caller's accumulator gets no update.
DerivedFile == fs[PathOf(environ, envs[ret.h].spec)]
C5_MissingDescriptor ==
    /\ (ret.op = "report_software" /\ ~DerivedFile.exists)
          => (ret.exc = "FileNotFoundError" /\ ret.val = PyNone)
    /\ (ret.op = "record_hash" /\ ~DerivedFile.exists)
          => (ret.exc = "FileNotFoundError" /\ ret.val.updates = 0
              /\ ret.val.acc = ret.arg)
C5_Witness ==
    /\ ret.op = "record_hash" /\ ~DerivedFile.exists
    /\ ret.exc = "FileNotFoundError" /\ ret.arg # <<>>
    /\ \E p \in Paths : fs[p].exists

\* C6 as stated: get_spack_env_yaml fails whenever SPACK_ROOT is unset.
C6_FailsWhenUnset ==
    (ret.op = "get_spack_env_yaml" /\ environ = PyNone) => ret.exc # NoExc
\* C6 amended: with SPACK_ROOT unset get_spack_env_yaml does not fail; it
\* returns "None/var/spack/environments/<envName>/spack.yaml".
C6_NonePathWhenUnset ==
    (ret.op = "get_spack_env_yaml" /\ environ = PyNone) =>
        /\ ret.exc = NoExc
        /\ ret.val = PyStr(<<"None", "/var/spack/environments/">>
                              \o envs[ret.h].spec.v \o <<"/spack.yaml">>)
C6_Witness ==
    ret.op = "get_spack_env_yaml" /\ environ = PyNone /\ ret.exc = NoExc

\* C7: the data record_hash passes to update is a deterministic and injective
\* function of the descriptor's raw bytes: equal bytes give equal data and
\* descriptors that differ in a byte give different data.
C7_HashInjective ==
    (ret.op = "record_hash" /\ ret.exc = NoExc /\ ret.val.prev.valid) =>
        ((ret.val.prev.bytes = lastHash.bytes) <=> (ret.val.prev.data = ret.val.data))

\* C8: source_path_attributes returns an empty collection of attribute names.
C8_SourcePathsEmpty ==
    ret.op = "source_path_attributes" =>
        (ret.exc = NoExc /\ ret.val.t # "NoneType" /\ ret.val.v = <<>>)

\* C9: every EnvSpec constructed successfully has a non-empty string envName.
C9_NameNonEmpty ==
    \A s \in specs : s.t = "str" /\ s.v # <<>>

\* C10: nothing is cached: each record_hash and report_software call reads
\* the file at <SPACK_ROOT now>/var/spack/environments/<envName>/spack.yaml
\* and computes its result from that file's content now.
TextNow == UniversalNewlines(Decode(DerivedFile.bytes))
C10_NothingCached ==
    /\ ret.op = "record_hash" =>
          IF DerivedFile.exists
          THEN /\ ret.exc = NoExc
               /\ ret.val.data = Encode(TextNow)
               /\ ret.val.acc = ret.arg \o Encode(TextNow)
          ELSE ret.exc = "FileNotFoundError"
    /\ ret.op = "report_software" =>
          IF DerivedFile.exists
          THEN /\ ret.exc = NoExc
               /\ ret.val = PyList(Report(SafeLoadSpecs(TextNow)))
          ELSE ret.exc = "FileNotFoundError"
C10_Witness ==
    /\ ret.op = "report_software" /\ ret.exc = NoExc
    /\ environ = PyStr(<<"/srv/spack">>)
    /\ lastHash.valid /\ lastHash.data # Encode(TextNow)
    /\ fs[PathOf(PyStr(<<"/opt/spack">>), envs[ret.h].spec)].exists
    /\ fs[PathOf(PyStr(<<"/opt/spack">>), envs[ret.h].spec)] # DerivedFile

====
